---- MODULE Spec2Model ----
(***************************************************************************)
(* Model of src/bot.py (WaterMarkX): a pyrogram bot that downloads photos  *)
(* from allowed chats, builds a rectangular mask, runs the external        *)
(* `iopaint` tool and forwards the cleaned photo.                          *)
(*                                                                         *)
(* All coroutines run on one asyncio event loop.  A task of the model is   *)
(* one invocation that the loop runs: handle_image for an admitted event,  *)
(* or remove_watermark / forward_image entered on their own with the       *)
(* arguments handle_image passes at lines 180 and 185.  `await` points     *)
(* (message.download, asyncio.sleep, app.send_photo) release the loop;     *)
(* subprocess.run and time.sleep keep it.                                  *)
(***************************************************************************)
EXTENDS Integers, Sequences, FiniteSets, TLC

VARIABLES
    config,     \* the dict loaded by load_config(), read-only afterwards
    clock,      \* datetime.now() in whole seconds
    tasks,      \* slot -> the invocation running in it (a record, see IdleTask)
    maskCall    \* one application of create_mask's rectangle computation

vars == <<config, clock, tasks, maskCall>>

----------------------------------------------------------------------------
(* Bounds of the model *)

MaxTasks == 2          \* invocations followed
MaxClock == 1          \* seconds 0..MaxClock
MaxRetriesCfg == 1     \* small max_retries values tried besides the default
MaxDim == 3            \* small image extents tried by the mask computation

(* DEFAULT_CONFIG *)
DEFAULT_MAX_RETRIES == 3
DEFAULT_RETRY_DELAY == 5
DEFAULT_MASK_X == -300
DEFAULT_MASK_Y == -60
DEFAULT_MASK_WIDTH == 300
DEFAULT_MASK_HEIGHT == 60

Slots == 1..MaxTasks
Chats == {"chatA", "chatB", "chatX"}
AllowedChats == {"chatA", "chatB"}
Message(chat, id, photo) == [chat |-> chat, id |-> id, photo |-> photo]
\* The events the transport delivers; message ids count per chat
Messages ==
    {Message("chatA", 1, TRUE), Message("chatA", 2, TRUE), Message("chatB", 1, TRUE),
     Message("chatA", 3, FALSE), Message("chatX", 1, TRUE)}
NoMsg == [chat |-> "", id |-> 0, photo |-> FALSE]

None == <<>>           \* Python's None, for a path or a decoded image

Min(a, b) == IF a < b THEN a ELSE b
Max(a, b) == IF a > b THEN a ELSE b

RECURSIVE Pow2(_)
Pow2(k) == IF k = 0 THEN 1 ELSE 2 * Pow2(k - 1)

MaskConfig(mx, my, mw, mh) ==
    [mask_x |-> mx, mask_y |-> my, mask_width |-> mw, mask_height |-> mh]

DefaultMask ==
    MaskConfig(DEFAULT_MASK_X, DEFAULT_MASK_Y, DEFAULT_MASK_WIDTH, DEFAULT_MASK_HEIGHT)

Config(retries, delay, mask) ==
    [max_retries |-> retries, retry_delay |-> delay, mask |-> mask,
     allowed_chats |-> AllowedChats]

DEFAULT_CONFIG == Config(DEFAULT_MAX_RETRIES, DEFAULT_RETRY_DELAY, DefaultMask)

\* config.json is written by the operator: some small retry settings
Configs == {Config(m, 1, DefaultMask) : m \in 0..MaxRetriesCfg}

\* Mask settings and image sizes tried by the mask computation on its own
Offsets == (0 - MaxDim - 1)..(MaxDim + 1)
MaskSizes == 0..(MaxDim + 1)
MaskConfigs ==
    {DefaultMask} \cup
    {MaskConfig(mx, my, mw, mh) : mx \in Offsets, my \in Offsets,
                                  mw \in MaskSizes, mh \in MaskSizes}
ImageSizes ==
    {<<1000, 800>>, <<1920, 1080>>} \cup ((1..MaxDim) \X (1..MaxDim))

\* as if `import numpy as np` stood among the imports
NpImported == TRUE

\* The module never binds the name `np` (no `import numpy as np` among the imports)
NpDefined == FALSE

----------------------------------------------------------------------------
(* File names and paths: <<directory, prefix, timestamp, message id>> *)

\* f"{datetime.now().strftime('%Y%m%d_%H%M%S')}_{message.id}.jpg"
FileName(now, message) == <<now, message.id>>

InputPath(file_name) == <<"input_dir", "">> \o file_name

\* os.path.basename
Basename(path) == <<path[3], path[4]>>

\* lines 171-172
MaskPathFor(input_path) == <<"mask_dir", "mask_">> \o Basename(input_path)

\* lines 178-179
OutputPathFor(input_path) == <<"output_dir", "cleaned_">> \o Basename(input_path)

\* `if not path`: None (and the empty string) are falsy
NotPath(path) == path = None

----------------------------------------------------------------------------
(* What the collaborators can answer *)

\* message.download: the file it leaves behind, or the exception it raises
DownloadOutcomes == {"image", "garbage", "empty", "missing",
                     "FloodWait", "RPCError", "OSError"}
\* subprocess.run(cmd, timeout=300): exit code and output file, or the exception
ToolOutcomes == {"ok", "ok_empty_output", "no_output", "nonzero",
                 "TimeoutExpired", "OSError"}
\* app.send_photo
SendOutcomes == {"sent", "RPCError"}

\* The photo that the scenario of the specification sends
PhotoSize == <<1920, 1080>>

----------------------------------------------------------------------------
(* Retry arithmetic, lines 83-84 and 144-145 *)

\* off by one: one retry too many
RetryAllowedInclusive(retry_count) == retry_count <= config.max_retries

RetryAllowed(retry_count) == retry_count < config.max_retries

\* linear instead of exponential backoff
WaitTimeLinear(retry_count) == config.retry_delay * (retry_count + 1)

WaitTime(retry_count) == config.retry_delay * Pow2(retry_count)

----------------------------------------------------------------------------
(* create_mask *)

\* the upper clamp forgotten
MaskOriginUnclamped(extent, offset, size) ==
    LET p == IF offset < 0 THEN extent + offset ELSE offset
    IN  Max(0, p)

\* a negative offset taken as it is
MaskOriginNearEdge(extent, offset, size) == Max(0, Min(offset, extent - size))

\* lines 103-104 and 109-110, for one axis
MaskOrigin(extent, offset, size) ==
    LET p == IF offset < 0 THEN extent + offset ELSE offset
    IN  Max(0, Min(p, extent - size))

MaskRect(width, height, mask) ==
    [x |-> MaskOrigin(width, mask.mask_x, mask.mask_width),
     y |-> MaskOrigin(height, mask.mask_y, mask.mask_height),
     width |-> mask.mask_width, height |-> mask.mask_height]

\* The exception create_mask's body raises, "" when it runs to the end
MaskError(img) ==
    IF img = None THEN "ValueError"         \* cv2.imread returned None
    ELSE IF ~NpDefined THEN "NameError"     \* np.zeros at line 113
    ELSE ""

\* `except Exception` at line 118
MaskCaught(error) == error \in {"ValueError", "NameError"}

\* What a call returns: its value, and whether an exception left the function
Returns(value) == [ret |-> value, raised |-> FALSE]
Raises == [ret |-> None, raised |-> TRUE]

create_mask(img, output_mask_path) ==
    LET error == MaskError(img)
    IN  IF error = "" THEN Returns(output_mask_path)
        ELSE IF MaskCaught(error) THEN Returns(None)
        ELSE Raises

----------------------------------------------------------------------------
(* Tasks *)

IdleTask ==
    [entry |-> "none",        \* the function the loop entered
     msg |-> NoMsg,           \* handle_image: the message
     pc |-> "idle",           \* the call the task is inside
     retry_count |-> 0,       \* of the download_image / remove_watermark frame
     file_path |-> None,      \* download_image: its local input_path
     img |-> None,            \* what cv2.imread yields for the downloaded file
     input_path |-> None,     \* handle_image's locals
     mask_path |-> None,
     output_path |-> None,
     out_arg |-> None,        \* remove_watermark's output_path parameter
     dl_calls |-> 0,          \* message.download invocations
     dl_transient |-> 0,      \* FloodWait / RPCError raised by them
     dl_empty |-> 0,          \* returns of them that left no file, or an empty one
     tool_calls |-> 0,        \* subprocess.run invocations
     dl_waits |-> <<>>,       \* asyncio.sleep arguments, in order
     tool_waits |-> <<>>,     \* time.sleep arguments, in order
     sent |-> <<>>,           \* app.send_photo arguments, in order
     forwarded |-> FALSE,     \* logger.info "Forwarded cleaned image", line 156
     error |-> "",            \* the last logger.error of the task
     raised |-> FALSE]        \* an exception left the entered function

Awaiting == {"download", "asyncio_sleep", "send_photo"}   \* suspended at an await
Blocking == {"iopaint", "time_sleep"}                     \* inside a blocking call

\* The task that occupies the loop's thread, if any
LoopHolders == {t \in Slots : tasks[t].pc \in Blocking}
\* as if the blocking calls were awaited: the loop always free for others
LoopFreeAlways == TRUE

LoopFree == LoopHolders = {}

\* The function the loop entered has returned (or raised): its frames are gone
Finish(r) ==
    [r EXCEPT !.pc = "done", !.retry_count = 0, !.file_path = None, !.out_arg = None]

\* logger.error
LogError(r, what) == [r EXCEPT !.error = what]

----------------------------------------------------------------------------
(* forward_image, lines 152-158 *)

\* the `except Exception` clause of forward_image missing
SendCaughtNothing(outcome) == FALSE

\* `except Exception` at line 157
SendCaught(outcome) == outcome \in {"RPCError"}

\* line 155: app.send_photo is invoked and awaited
forward_image(r, output_path) ==
    [r EXCEPT !.sent = Append(@, output_path), !.pc = "send_photo"]

\* send_photo answered; forward_image returns None and so does whoever awaited it
AfterSend(r, outcome) ==
    IF outcome = "sent" THEN Finish([r EXCEPT !.forwarded = TRUE])
    ELSE IF SendCaught(outcome) THEN Finish(LogError(r, "Failed to forward image"))
    ELSE Finish([r EXCEPT !.raised = TRUE])

----------------------------------------------------------------------------
(* handle_image after remove_watermark returned, lines 180-185 *)

handle_image_publish(r, output_path) ==
    LET r1 == [r EXCEPT !.output_path = output_path]
    IN  IF NotPath(output_path) THEN Finish(r1)
        ELSE forward_image(r1, output_path)

----------------------------------------------------------------------------
(* remove_watermark, lines 122-150 *)

\* line 133: subprocess.run is invoked; it blocks the thread until it returns
RunTool(r) == [r EXCEPT !.tool_calls = @ + 1, !.pc = "iopaint"]

remove_watermark(r, output_path, retry_count) ==
    RunTool([r EXCEPT !.out_arg = output_path, !.retry_count = retry_count])

\* line 134: result.returncode == 0 and os.path.exists(output_path)
ToolSucceeded(outcome) == outcome \in {"ok", "ok_empty_output"}

\* subprocess.run raised
ToolRaised(outcome) == outcome \in {"TimeoutExpired", "OSError"}

\* `except subprocess.TimeoutExpired` at line 140
ToolTimedOut(outcome) == outcome = "TimeoutExpired"

\* `except Exception` at line 143
ToolCaught(outcome) == outcome \in {"OSError"}

\* remove_watermark returns `value` to its caller, through every recursive frame
ReturnFromInpaint(r, value) ==
    IF r.entry = "handle_image" THEN handle_image_publish(r, value)
    ELSE Finish([r EXCEPT !.output_path = value])

\* subprocess.run answered `outcome`, lines 134-150
AfterTool(r, outcome) ==
    IF ~ToolRaised(outcome)
    THEN IF ToolSucceeded(outcome) THEN ReturnFromInpaint(r, r.out_arg)
         ELSE ReturnFromInpaint(LogError(r, "IOPaint failed"), None)
    ELSE IF ToolTimedOut(outcome)
    THEN ReturnFromInpaint(LogError(r, "IOPaint timed out"), None)
    ELSE IF ToolCaught(outcome)
    THEN IF RetryAllowed(r.retry_count)
         THEN [r EXCEPT !.tool_waits = Append(@, WaitTime(r.retry_count)),
                        !.pc = "time_sleep"]
         ELSE ReturnFromInpaint(LogError(r, "Max retries reached for IOPaint"), None)
    ELSE Finish([r EXCEPT !.raised = TRUE])

\* time.sleep returned, line 148
AfterTimeSleep(r) == remove_watermark(r, r.out_arg, r.retry_count + 1)

----------------------------------------------------------------------------
(* handle_image after download_image returned, lines 166-180 *)

\* the mask stage left out: the tool is started right after the download
handle_image_mask_skipped(r, input_path) ==
    LET r1 == [r EXCEPT !.input_path = input_path]
    IN  IF NotPath(input_path) THEN Finish(r1)
        ELSE remove_watermark(r1, OutputPathFor(input_path), 0)

\* the `if not mask_path: return` of lines 174-175 forgotten
handle_image_mask_unchecked(r, input_path) ==
    LET r1 == [r EXCEPT !.input_path = input_path]
        made == create_mask(r.img, MaskPathFor(input_path))
        r2 == [r1 EXCEPT !.mask_path = made.ret]
    IN  IF NotPath(input_path) THEN Finish(r1)
        ELSE remove_watermark(r2, OutputPathFor(input_path), 0)

handle_image_mask(r, input_path) ==
    LET r1 == [r EXCEPT !.input_path = input_path]
        made == create_mask(r.img, MaskPathFor(input_path))
        r2 == [r1 EXCEPT !.mask_path = made.ret,
                         !.error = IF NotPath(made.ret) THEN "Mask creation error" ELSE @]
    IN  IF NotPath(input_path) THEN Finish(r1)
        ELSE IF made.raised THEN Finish([r1 EXCEPT !.raised = TRUE])
        ELSE IF NotPath(made.ret) THEN Finish(r2)
        ELSE remove_watermark(r2, OutputPathFor(input_path), 0)

----------------------------------------------------------------------------
(* download_image, lines 70-92 *)

\* lines 73-75: the name is taken from the clock, message.download is awaited
download_image(r, retry_count, now) ==
    [r EXCEPT !.retry_count = retry_count,
              !.file_path = InputPath(FileName(now, r.msg)),
              !.dl_calls = @ + 1,
              !.pc = "download"]

\* the test of line 76 left out: whatever the download left is taken
FileOkUnchecked(outcome) == outcome \in {"image", "garbage", "empty", "missing"}

\* line 76: os.path.exists(input_path) and os.path.getsize(input_path) > 0
FileOk(outcome) == outcome \in {"image", "garbage"}

DownloadRaised(outcome) == outcome \in {"FloodWait", "RPCError", "OSError"}

\* `except (FloodWait, RPCError)` at line 82
DownloadTransient(outcome) == outcome \in {"FloodWait", "RPCError"}

\* the `except Exception` clause missing
DownloadCaughtNothing(outcome) == FALSE

\* `except Exception` at line 90
DownloadCaught(outcome) == outcome \in {"OSError"}

\* an empty or missing file retried like a transport error
AfterDownloadRetryingEmpty(r, outcome) ==
    LET r1 == [r EXCEPT !.img = IF outcome = "image" THEN PhotoSize ELSE None]
    IN  IF ~DownloadRaised(outcome)
        THEN IF FileOk(outcome) THEN handle_image_mask(r1, r.file_path)
             ELSE LET r2 == [r1 EXCEPT !.dl_empty = @ + 1]
                  IN  IF RetryAllowed(r.retry_count)
                      THEN [r2 EXCEPT !.dl_waits = Append(@, WaitTime(r.retry_count)),
                                      !.pc = "asyncio_sleep"]
                      ELSE handle_image_mask(LogError(r2, "Empty or missing file"), None)
        ELSE IF DownloadTransient(outcome)
        THEN LET r2 == [r1 EXCEPT !.dl_transient = @ + 1]
             IN  IF RetryAllowed(r.retry_count)
                 THEN [r2 EXCEPT !.dl_waits = Append(@, WaitTime(r.retry_count)),
                                 !.pc = "asyncio_sleep"]
                 ELSE handle_image_mask(
                          LogError(r2, "Max retries reached for download"), None)
        ELSE IF DownloadCaught(outcome)
        THEN handle_image_mask(LogError(r1, "Unexpected download error"), None)
        ELSE Finish([r1 EXCEPT !.raised = TRUE])

\* message.download answered `outcome`, lines 76-92
AfterDownload(r, outcome) ==
    LET r1 == [r EXCEPT !.img = IF outcome = "image" THEN PhotoSize ELSE None]
    IN  IF ~DownloadRaised(outcome)
        THEN IF FileOk(outcome) THEN handle_image_mask(r1, r.file_path)
             ELSE handle_image_mask(
                      LogError([r1 EXCEPT !.dl_empty = @ + 1], "Empty or missing file"),
                      None)
        ELSE IF DownloadTransient(outcome)
        THEN LET r2 == [r1 EXCEPT !.dl_transient = @ + 1]
             IN  IF RetryAllowed(r.retry_count)
                 THEN [r2 EXCEPT !.dl_waits = Append(@, WaitTime(r.retry_count)),
                                 !.pc = "asyncio_sleep"]
                 ELSE handle_image_mask(
                          LogError(r2, "Max retries reached for download"), None)
        ELSE IF DownloadCaught(outcome)
        THEN handle_image_mask(LogError(r1, "Unexpected download error"), None)
        ELSE Finish([r1 EXCEPT !.raised = TRUE])

\* asyncio.sleep returned, line 87
\* the `retry_count + 1` of line 87 forgotten
AfterAsyncSleepSameCount(r, now) == download_image(r, r.retry_count, now)

AfterAsyncSleep(r, now) == download_image(r, r.retry_count + 1, now)

----------------------------------------------------------------------------
(* The dispatcher: filters.photo & filters.chat(config["allowed_chats"]) *)

\* the chat filter missing
AdmittedAnyChat(message) == message.photo

Admitted(message) == message.photo /\ message.chat \in config.allowed_chats

handle_image(message, now) ==
    download_image([IdleTask EXCEPT !.entry = "handle_image", !.msg = message], 0, now)

Received == {tasks[t].msg : t \in Slots} \ {NoMsg}

\* Slots are taken in order
NextSlot(t) ==
    /\ tasks[t].entry = "none"
    /\ t > 1 => tasks[t - 1].entry # "none"

\* Paths that remove_watermark and forward_image are entered with on their own
ArgInput == InputPath(<<0, 1>>)

----------------------------------------------------------------------------
(* Actions *)

Init ==
    /\ config \in Configs
    /\ clock = 0
    /\ tasks = [t \in Slots |-> IdleTask]
    /\ maskCall = None

\* An inbound event reaches the dispatcher
Receive(t, message) ==
    /\ LoopFree
    /\ NextSlot(t)
    /\ message \notin Received
    /\ tasks' = [tasks EXCEPT ![t] =
                    IF Admitted(message) THEN handle_image(message, clock)
                    ELSE [IdleTask EXCEPT !.entry = "filtered", !.msg = message]]
    /\ UNCHANGED <<config, clock, maskCall>>

\* remove_watermark entered on its own
CallRemoveWatermark(t) ==
    /\ LoopFree
    /\ NextSlot(t)
    /\ tasks' = [tasks EXCEPT ![t] =
                    remove_watermark(
                        [IdleTask EXCEPT !.entry = "remove_watermark",
                                         !.input_path = ArgInput,
                                         !.mask_path = MaskPathFor(ArgInput)],
                        OutputPathFor(ArgInput), 0)]
    /\ UNCHANGED <<config, clock, maskCall>>

\* forward_image entered on its own
CallForwardImage(t) ==
    /\ LoopFree
    /\ NextSlot(t)
    /\ tasks' = [tasks EXCEPT ![t] =
                    forward_image([IdleTask EXCEPT !.entry = "forward_image"],
                                  OutputPathFor(ArgInput))]
    /\ UNCHANGED <<config, clock, maskCall>>

\* A second passes
Tick ==
    /\ clock < MaxClock
    /\ clock' = clock + 1
    /\ UNCHANGED <<config, tasks, maskCall>>

DownloadReturns(t, outcome) ==
    /\ LoopFree
    /\ tasks[t].pc = "download"
    /\ tasks' = [tasks EXCEPT ![t] = AfterDownload(@, outcome)]
    /\ UNCHANGED <<config, clock, maskCall>>

AsyncSleepReturns(t) ==
    /\ LoopFree
    /\ tasks[t].pc = "asyncio_sleep"
    /\ tasks' = [tasks EXCEPT ![t] = AfterAsyncSleep(@, clock)]
    /\ UNCHANGED <<config, clock, maskCall>>

SendPhotoReturns(t, outcome) ==
    /\ LoopFree
    /\ tasks[t].pc = "send_photo"
    /\ tasks' = [tasks EXCEPT ![t] = AfterSend(@, outcome)]
    /\ UNCHANGED <<config, clock, maskCall>>

ToolReturns(t, outcome) ==
    /\ tasks[t].pc = "iopaint"
    /\ tasks' = [tasks EXCEPT ![t] = AfterTool(@, outcome)]
    /\ UNCHANGED <<config, clock, maskCall>>

TimeSleepReturns(t) ==
    /\ tasks[t].pc = "time_sleep"
    /\ tasks' = [tasks EXCEPT ![t] = AfterTimeSleep(@)]
    /\ UNCHANGED <<config, clock, maskCall>>

\* handle_image's mask stage for a downloaded image of the given size: the
\* rectangle of lines 100-110, and the run after create_mask returned
ComputeMask(width, height) ==
    /\ maskCall = None
    /\ maskCall' = <<[width |-> width, height |-> height,
                      rect |-> MaskRect(width, height, config.mask),
                      run |-> handle_image_mask(
                                  [IdleTask EXCEPT !.entry = "handle_image",
                                                   !.pc = "download",
                                                   !.dl_calls = 1,
                                                   !.file_path = ArgInput,
                                                   !.img = <<width, height>>],
                                  ArgInput)]>>
    /\ UNCHANGED <<config, clock, tasks>>

\* The steps of the tasks in the slots S
Step(S) ==
    \/ \E t \in S, message \in Messages : Receive(t, message)
    \/ \E t \in S : CallRemoveWatermark(t)
    \/ \E t \in S : CallForwardImage(t)
    \/ Tick
    \/ \E t \in S, outcome \in DownloadOutcomes : DownloadReturns(t, outcome)
    \/ \E t \in S : AsyncSleepReturns(t)
    \/ \E t \in S, outcome \in SendOutcomes : SendPhotoReturns(t, outcome)
    \/ \E t \in S, outcome \in ToolOutcomes : ToolReturns(t, outcome)
    \/ \E t \in S : TimeSleepReturns(t)

Next == Step(Slots)

Spec == Init /\ [][Next]_vars

(* The bot under the default retry settings, two tasks at a time *)
InitRetry ==
    /\ config = DEFAULT_CONFIG
    /\ clock = 0
    /\ tasks = [t \in Slots |-> IdleTask]
    /\ maskCall = None

NextRetry == Step({1, 2})

SpecRetry == InitRetry /\ [][NextRetry]_vars

\* The loop resumes task t: the call it waits in comes back
CallComesBack(t) ==
    \/ \E outcome \in DownloadOutcomes : DownloadReturns(t, outcome)
    \/ AsyncSleepReturns(t)
    \/ \E outcome \in SendOutcomes : SendPhotoReturns(t, outcome)
    \/ \E outcome \in ToolOutcomes : ToolReturns(t, outcome)
    \/ TimeSleepReturns(t)

(* The same, where every call a task waits in comes back: the sleeps are    *)
(* finite, subprocess.run is given timeout=300 (line 133), the event loop   *)
(* resumes an await that completed, and the Telegram client is taken to     *)
(* answer every download and send_photo, by a result or by an error.        *)
SpecRetryFair ==
    InitRetry /\ [][NextRetry]_vars /\ \A t \in {1, 2} : WF_vars(CallComesBack(t))

(* The mask computation applied to every setting and image size *)
InitMask ==
    /\ config \in {Config(DEFAULT_MAX_RETRIES, DEFAULT_RETRY_DELAY, mask) :
                      mask \in MaskConfigs}
    /\ clock = 0
    /\ tasks = [t \in Slots |-> IdleTask]
    /\ maskCall = None

NextMask == \E size \in ImageSizes : ComputeMask(size[1], size[2])

SpecMask == InitMask /\ [][NextMask]_vars

----------------------------------------------------------------------------
(* The runs of the pipeline, as the specification names their states *)

Runs == {t \in Slots : tasks[t].entry = "handle_image"}
Ended(t) == tasks[t].pc = "done"

FailedAt(t) ==
    IF ~Ended(t) THEN ""
    ELSE IF tasks[t].input_path = None THEN "Acquiring"
    ELSE IF tasks[t].mask_path = None THEN "Masking"
    ELSE IF tasks[t].output_path = None THEN "Inpainting"
    ELSE ""

----------------------------------------------------------------------------
(* C1: a run whose download, mask or inpainting stage did not deliver its   *)
(* result has made no later stage's call: no tool invocation without a mask, *)
(* no send_photo without an input, a mask and a cleaned image.               *)
C1_NoPublishAfterFailure ==
    \A t \in Runs :
        LET r == tasks[t]
        IN  /\ r.input_path = None => r.mask_path = None
            /\ r.mask_path = None => r.tool_calls = 0 /\ r.output_path = None
            /\ r.output_path = None => r.sent = <<>>
            /\ FailedAt(t) # "" => r.sent = <<>>

\* a run downloaded its photo, failed at Masking and ended without publishing
C1_Witness ==
    \E t \in Runs : FailedAt(t) = "Masking" /\ tasks[t].dl_calls > 0 /\ tasks[t].sent = <<>>

(* C2: under FloodWait / RPCError a download is invoked at most             *)
(* max_retries + 1 times; it succeeds after k failures with exactly k + 1   *)
(* invocations, and gives up exactly when failure max_retries + 1 arrives.  *)
C2_DownloadAttempts ==
    \A t \in Runs :
        LET r == tasks[t]
            n == config.max_retries
            gaveUp == r.error = "Max retries reached for download"
        IN  /\ r.dl_calls <= n + 1
            /\ r.dl_transient <= n + 1
            /\ r.input_path # None => r.dl_calls = r.dl_transient + 1
            /\ r.dl_transient = n + 1 =>
                  Ended(t) /\ r.input_path = None /\ r.dl_calls = n + 1 /\ gaveUp
            /\ gaveUp => r.dl_transient = n + 1
            /\ r.pc = "asyncio_sleep" => r.dl_transient <= n

\* one run succeeded after max_retries failures, another gave up after one more
C2_Witness ==
    /\ config.max_retries > 0
    /\ \E t \in Runs, u \in Runs :
          /\ tasks[t].input_path # None
          /\ tasks[t].dl_transient = config.max_retries
          /\ tasks[t].dl_calls = config.max_retries + 1
          /\ tasks[u].error = "Max retries reached for download"
          /\ tasks[u].dl_calls = config.max_retries + 1

IsPrefix(s, w) == Len(s) <= Len(w) /\ s = SubSeq(w, 1, Len(s))

DefaultWaits == <<5, 10, 20>>

(* C3: with retry_delay = 5 and max_retries = 3 the waits of a download and *)
(* of an inpainting call are the first waits of 5, 10, 20, each the double  *)
(* of the one before; a call that gave up waited 5, 10, 20 and no more.     *)
C3_BackoffWaits ==
    \A t \in Slots :
        LET r == tasks[t]
            Doubling(w) ==
                /\ Len(w) <= config.max_retries
                /\ Len(w) > 0 => w[1] = config.retry_delay
                /\ \A k \in 1..(Len(w) - 1) : w[k + 1] = 2 * w[k]
        IN  /\ Doubling(r.dl_waits) /\ Doubling(r.tool_waits)
            /\ IsPrefix(r.dl_waits, DefaultWaits)
            /\ IsPrefix(r.tool_waits, DefaultWaits)
            /\ r.error = "Max retries reached for download" => r.dl_waits = DefaultWaits
            /\ r.error = "Max retries reached for IOPaint" => r.tool_waits = DefaultWaits

\* a download and an inpainting call both gave up after waiting 5, 10, 20
C3_Witness ==
    \E t \in Slots, u \in Slots :
        /\ tasks[t].error = "Max retries reached for download"
        /\ tasks[t].dl_waits = <<5, 10, 20>>
        /\ tasks[u].error = "Max retries reached for IOPaint"
        /\ tasks[u].tool_waits = <<5, 10, 20>>

Computed == maskCall # None
Call == maskCall[1]
Fits == /\ config.mask.mask_width <= Call.width
        /\ config.mask.mask_height <= Call.height

(* C4: when the mask is no larger than the image, the rectangle lies inside *)
(* the image, whatever the offsets.                                         *)
C4_RectangleInsideImage ==
    Computed /\ Fits =>
        /\ 0 <= Call.rect.x
        /\ 0 <= Call.rect.y
        /\ Call.rect.x + config.mask.mask_width <= Call.width
        /\ Call.rect.y + config.mask.mask_height <= Call.height

\* a fitting mask whose configured position had to be pulled back inside
C4_Witness ==
    /\ Computed /\ Fits
    /\ config.mask.mask_x > Call.width - config.mask.mask_width
    /\ config.mask.mask_y < 0 /\ Call.height + config.mask.mask_y < 0
    /\ Call.rect.x = Call.width - config.mask.mask_width
    /\ Call.rect.y = 0

\* Where one axis of the rectangle must start, case by case
OriginAsSpecified(origin, extent, offset, size) ==
    LET from == IF offset < 0 THEN extent + offset ELSE offset
    IN  /\ extent - size < 0 => origin = 0
        /\ extent - size >= 0 /\ from < 0 => origin = 0
        /\ extent - size >= 0 /\ from > extent - size => origin = extent - size
        /\ extent - size >= 0 /\ 0 <= from /\ from <= extent - size => origin = from

(* C5: a negative offset counts from the far edge, the position is then     *)
(* clamped to 0..extent - size on each axis; for a 1000 x 800 image and the *)
(* mask -300, -60, 300, 60 the rectangle starts at 700, 740.                *)
C5_NegativeOffsetFromFarEdge ==
    Computed =>
        /\ OriginAsSpecified(Call.rect.x, Call.width,
                             config.mask.mask_x, config.mask.mask_width)
        /\ OriginAsSpecified(Call.rect.y, Call.height,
                             config.mask.mask_y, config.mask.mask_height)
        /\ (config.mask = MaskConfig(-300, -60, 300, 60)
              /\ Call.width = 1000 /\ Call.height = 800)
             => Call.rect.x = 700 /\ Call.rect.y = 740

\* compute(1000, 800, -300, -60, 300, 60) was applied and gave 700, 740
C5_Witness ==
    /\ Computed
    /\ config.mask = MaskConfig(-300, -60, 300, 60)
    /\ Call.width = 1000 /\ Call.height = 800
    /\ Call.rect.x = 700 /\ Call.rect.y = 740

ToolFailures == {"IOPaint failed", "IOPaint timed out", "Max retries reached for IOPaint"}

(* C6: a run that ended after downloading a valid 1920 x 1080 photo, under  *)
(* the mask -300, -60, 300, 60, with no failure of the tool and none of the *)
(* publisher, has called send_photo exactly once, with the cleaned image of *)
(* the output directory.                                                    *)
C6_EndToEndPublishesOnce ==
    \A t \in Runs :
        LET r == tasks[t]
        IN  (/\ Ended(t)
             /\ config.mask = MaskConfig(-300, -60, 300, 60)
             /\ r.input_path # None /\ r.img = <<1920, 1080>>
             /\ r.error \notin ToolFailures \cup {"Failed to forward image"}
             /\ r.tool_waits = <<>>)
            => r.sent = <<OutputPathFor(r.input_path)>>

(* C7: the inpainting stage reports a failure of the tool (time-out,        *)
(* non-zero exit code, missing output) only after max_retries further       *)
(* attempts, that is after max_retries + 1 invocations of the tool.         *)
C7_ToolFailuresRetried ==
    \A t \in Slots :
        (Ended(t) /\ tasks[t].error \in ToolFailures)
            => tasks[t].tool_calls = config.max_retries + 1

\* What the loop can do for task u: deliver the answer its await waits for
Resume(u) ==
    \/ \E outcome \in DownloadOutcomes : DownloadReturns(u, outcome)
    \/ AsyncSleepReturns(u)
    \/ \E outcome \in SendOutcomes : SendPhotoReturns(u, outcome)

(* C8: while a task waits in a retry backoff or in the call of the          *)
(* inpainting tool, every other task suspended at an await can be resumed,  *)
(* and a free slot can take an inbound event.                               *)
C8_WaitsDoNotBlockOthers ==
    \A t \in Slots :
        tasks[t].pc \in {"asyncio_sleep", "time_sleep", "iopaint"} =>
            /\ \A u \in Slots \ {t} : tasks[u].pc \in Awaiting => ENABLED Resume(u)
            /\ \A u \in Slots : NextSlot(u) =>
                  ENABLED (\E message \in Messages : Receive(u, message))

\* The file a run downloads to, or has downloaded
InputOf(t) ==
    IF tasks[t].input_path # None THEN tasks[t].input_path ELSE tasks[t].file_path

(* C9: two runs in progress never use the same input file (and so never the *)
(* same mask or output file, which are named after it).                     *)
C9_DistinctPaths ==
    \A t \in Runs, u \in Runs :
        (t # u /\ ~Ended(t) /\ ~Ended(u) /\ InputOf(t) # None /\ InputOf(u) # None)
            => /\ InputOf(t) # InputOf(u)
               /\ MaskPathFor(InputOf(t)) # MaskPathFor(InputOf(u))
               /\ OutputPathFor(InputOf(t)) # OutputPathFor(InputOf(u))

(* C10: no exception leaves download_image, create_mask, remove_watermark,  *)
(* forward_image or handle_image: every task ends by returning, and after   *)
(* a run has failed a free slot still takes an inbound event.               *)
C10_NoErrorEscapes ==
    /\ \A t \in Slots : ~tasks[t].raised
    /\ \A t \in Runs, u \in Slots :
          (FailedAt(t) # "" /\ LoopFree /\ NextSlot(u))
              => ENABLED (\E message \in Messages : Receive(u, message))

\* a run failed on an unexpected download error and a later run was served
C10_Witness ==
    \E t \in Runs, u \in Runs :
        /\ t < u
        /\ FailedAt(t) = "Acquiring"
        /\ tasks[t].error = "Unexpected download error"
        /\ FailedAt(u) = "Masking"
        /\ tasks[u].error = "Mask creation error"

----------------------------------------------------------------------------
\* The tasks that can publish: the runs, and forward_image entered on its own
Publishers == {t \in Slots : tasks[t].entry \in {"handle_image", "forward_image"}}

\* The final states of section 4.5, read off the task's results and its log
Done(t) ==
    /\ Ended(t) /\ tasks[t].error = "" /\ ~tasks[t].raised
    /\ t \in Runs => FailedAt(t) = ""
FailedPublishing(t) == Ended(t) /\ tasks[t].error = "Failed to forward image"

(* C11: a task calls send_photo at most once; one that ended Done called it *)
(* exactly once and the call succeeded; one whose call failed ended with    *)
(* the logged failure of the publishing stage, not Done.                    *)
C11_OnePublishPerRun ==
    \A t \in Publishers :
        LET r == tasks[t]
        IN  /\ Len(r.sent) <= 1
            /\ Done(t) => Len(r.sent) = 1 /\ r.forwarded
            /\ (Ended(t) /\ Len(r.sent) = 1 /\ ~r.forwarded)
                  => FailedPublishing(t) /\ ~Done(t) /\ ~r.raised
            /\ r.forwarded => Len(r.sent) = 1

\* one publish call succeeded and its task is Done, another failed
C11_Witness ==
    \E t \in Publishers, u \in Publishers :
        /\ Done(t) /\ Len(tasks[t].sent) = 1 /\ tasks[t].forwarded
        /\ FailedPublishing(u) /\ Len(tasks[u].sent) = 1 /\ ~tasks[u].forwarded

----------------------------------------------------------------------------
----------------------------------------------------------------------------
(* C13 as claimed: a download that left an empty or missing file is given   *)
(* up only after max_retries further attempts.                              *)
C13_EmptyFileRetried ==
    \A t \in Runs :
        (Ended(t) /\ tasks[t].dl_empty > 0) => tasks[t].dl_calls = config.max_retries + 1

(* C13 as the code has it: an empty or missing file is not retried; it ends *)
(* download_image at once, with no wait and no further message.download     *)
(* after it, whatever retries were left.                                    *)
C13_EmptyFileNotRetried ==
    \A t \in Runs :
        LET r == tasks[t]
        IN  r.dl_empty > 0 =>
                /\ r.dl_empty = 1
                /\ r.pc = "done" /\ r.input_path = None
                /\ r.dl_calls = r.dl_transient + 1
                /\ Len(r.dl_waits) = r.dl_transient
                /\ r.error = "Empty or missing file"

\* an empty file ended a download that had all its retries left
C13_Witness ==
    \E t \in Runs :
        /\ tasks[t].dl_empty = 1 /\ tasks[t].dl_calls = 1 /\ tasks[t].dl_waits = <<>>
        /\ config.max_retries > 0 /\ tasks[t].pc = "done"

----------------------------------------------------------------------------
\* An event the dispatcher is to admit: a photo from a chat of the allow-list
Eligible(message) == message.photo /\ message.chat \in {"chatA", "chatB"}

(* C14: a received event has a run if and only if it is a photo from an     *)
(* allowed chat; it then has exactly one, also beside another run of the    *)
(* same chat; an event without a run causes no download, mask, tool or      *)
(* publish call.                                                            *)
C14_RunIffAdmitted ==
    /\ \A t \in Slots :
          LET r == tasks[t]
          IN  /\ r.entry = "handle_image" => Eligible(r.msg) /\ r.dl_calls >= 1
              /\ r.entry = "filtered" =>
                    /\ ~Eligible(r.msg)
                    /\ r.pc = "idle" /\ r.dl_calls = 0 /\ r.tool_calls = 0
                    /\ r.mask_path = None /\ r.sent = <<>>
              /\ r.msg # NoMsg => r.entry \in {"handle_image", "filtered"}
    /\ \A m \in Received :
          Cardinality({t \in Slots : tasks[t].msg = m}) = 1

\* a photo from a chat outside the allow-list was dropped, a photo from chatA runs
C14_Witness ==
    \E t \in Slots, u \in Slots :
        /\ tasks[t].entry = "filtered" /\ tasks[t].msg = Message("chatX", 1, TRUE)
        /\ tasks[u].entry = "handle_image" /\ tasks[u].msg.chat = "chatA"
        /\ tasks[u].dl_calls = 1

----------------------------------------------------------------------------
\* The stage a run is in, as a rank: Acquiring 1, Inpainting 3, Publishing 4.
\* Masking (2) has no call that waits: it passes within the step that ends the
\* download.
StageRank(r) ==
    CASE r.pc \in {"download", "asyncio_sleep"} -> 1
      [] r.pc \in {"iopaint", "time_sleep"} -> 3
      [] r.pc = "send_photo" -> 4
      [] r.pc = "done" -> 5
      [] OTHER -> 0

StagesInOrder ==
    \A t \in Runs :
        LET r == tasks[t]
        IN  /\ StageRank(r) >= 1 => r.dl_calls >= 1
            /\ r.mask_path # None => r.input_path # None
            /\ StageRank(r) \in {3, 4} => r.input_path # None /\ r.mask_path # None
            /\ r.tool_calls > 0 => r.input_path # None /\ r.mask_path # None
            /\ StageRank(r) = 4 => r.output_path # None /\ r.tool_calls > 0
            /\ r.sent # <<>> => r.output_path # None /\ r.tool_calls > 0

StagesNeverGoBack ==
    \A t \in Slots :
        (tasks[t].entry = "handle_image" /\ tasks'[t].entry = "handle_image") =>
            /\ StageRank(tasks'[t]) >= StageRank(tasks[t])
            /\ tasks[t].input_path # None => tasks'[t].dl_calls = tasks[t].dl_calls
            /\ tasks[t].sent # <<>> => tasks'[t].tool_calls = tasks[t].tool_calls
            /\ StageRank(tasks[t]) = 5 => tasks'[t] = tasks[t]

(* C15: in a run the stages come in the order Acquiring, Masking,           *)
(* Inpainting, Publishing: a stage is entered only with the results of all  *)
(* stages before it, and no step takes a run back to an earlier stage.      *)
C15_StagesSequential == []StagesInOrder /\ [][StagesNeverGoBack]_vars

\* a run went through a retried download and the mask stage, and ended there
C15_Witness ==
    \E t \in Runs :
        /\ tasks[t].dl_calls >= 2 /\ tasks[t].input_path # None
        /\ tasks[t].error = "Mask creation error" /\ StageRank(tasks[t]) = 5
        /\ tasks[t].tool_calls = 0

----------------------------------------------------------------------------
\* The step in which an unexpected error (an OSError, neither a rate limit nor
\* a transport error, neither an exit code nor a time-out) comes back to task t
FatalFailure(t) ==
    \/ DownloadReturns(t, "OSError")
    \/ ToolReturns(t, "OSError")

(* C16: a failure that is not retryable ends its stage at once, in the      *)
(* download as in the inpainting: the step that brings an unexpected error  *)
(* ends the task, with no backoff wait started and no further invocation.   *)
C16_FatalEndsStage ==
    [][\A t \in Slots :
          FatalFailure(t) =>
              /\ tasks'[t].pc = "done"
              /\ tasks'[t].dl_waits = tasks[t].dl_waits
              /\ tasks'[t].tool_waits = tasks[t].tool_waits]_vars

----------------------------------------------------------------------------
\* The step in which a download of run t comes back with an empty or no file
ValidationFailure(t) ==
    /\ tasks[t].entry = "handle_image"
    /\ \E outcome \in {"empty", "missing"} : DownloadReturns(t, outcome)

\* Run t has ended in the download stage and nothing of a later stage happened
FailedInAcquiring(r) ==
    /\ r.pc = "done" /\ r.input_path = None
    /\ r.mask_path = None /\ r.output_path = None
    /\ r.tool_calls = 0 /\ r.tool_waits = <<>> /\ r.sent = <<>>

(* C17: an empty or missing downloaded file fails the run in the download   *)
(* stage in the very step that finds it: that download stays the last one,  *)
(* no backoff wait is started and no later stage is executed, then or       *)
(* afterwards.                                                              *)
C17_ValidationFailureEndsRun ==
    [][\A t \in Slots :
          /\ ValidationFailure(t) =>
                /\ FailedInAcquiring(tasks'[t])
                /\ tasks'[t].dl_calls = tasks[t].dl_calls
                /\ tasks'[t].dl_waits = tasks[t].dl_waits
          /\ (tasks[t].entry = "handle_image" /\ tasks[t].dl_empty > 0) =>
                tasks'[t] = tasks[t]]_vars

\* an empty file ended a run in its second download, with retries left
C17_Witness ==
    \E t \in Runs :
        /\ tasks[t].dl_empty = 1 /\ tasks[t].dl_transient = 1 /\ tasks[t].dl_calls = 2
        /\ tasks[t].dl_calls <= config.max_retries
        /\ FailedInAcquiring(tasks[t])

----------------------------------------------------------------------------
\* The step in which remove_watermark of task t declares success on the
\* tool's answer `outcome`: it returns the output path, and a run goes on to
\* publish it
DeclaresSuccess(t, outcome) ==
    /\ ToolReturns(t, outcome)
    /\ \/ tasks'[t].output_path # None
       \/ tasks'[t].pc = "send_photo"

(* C18: the inpainting stage declares success, and a run proceeds to        *)
(* publishing, only when the tool exited with code 0 and left an output     *)
(* file that exists and is not empty.                                       *)
C18_SuccessNeedsNonEmptyOutput ==
    [][\A t \in Slots : \A outcome \in ToolOutcomes :
          DeclaresSuccess(t, outcome) => outcome = "ok"]_vars

----------------------------------------------------------------------------
AttemptsBounded ==
    \A t \in Slots :
        /\ tasks[t].dl_calls <= config.max_retries + 1
        /\ tasks[t].tool_calls <= config.max_retries + 1
        /\ tasks[t].retry_count <= config.max_retries

EndedForGood ==
    \A t \in Slots : Ended(t) => tasks'[t] = tasks[t]

(* C19: every run terminates, where the calls it waits in come back: it     *)
(* ends, done or failed, after at most max_retries + 1 downloads and at     *)
(* most max_retries + 1 invocations of the tool, with a retry depth of at   *)
(* most max_retries; once ended it takes no further step and is not         *)
(* started again.                                                           *)
C19_RunsTerminate ==
    /\ []AttemptsBounded
    /\ [][EndedForGood]_vars
    /\ \A t \in {1, 2} : (tasks[t].entry \notin {"none", "filtered"}) ~> Ended(t)

\* a run ended after all its downloads, beside a task that used all its
\* invocations of the tool
C19_Witness ==
    \E t \in Runs, u \in Slots :
        /\ Ended(t) /\ tasks[t].dl_calls = config.max_retries + 1
        /\ tasks[t].retry_count = 0
        /\ Ended(u) /\ tasks[u].tool_calls = config.max_retries + 1

----------------------------------------------------------------------------
\* The tasks inside the inpainting stage: in the tool's call or in its backoff
InInpainting == {t \in Slots : tasks[t].pc \in {"iopaint", "time_sleep"}}

\* While a task is inside the inpainting stage no other task takes a step and
\* no event is taken in
OthersStandStill ==
    \A t \in InInpainting : \A u \in Slots \ {t} : tasks'[u] = tasks[u]

(* C20: the mask stage, the tool's call and the backoff of the inpainting   *)
(* stage occupy the single event loop: at most one task is in them at a     *)
(* time and no other task moves meanwhile; tasks interleave only where one  *)
(* is suspended in a download, in the download's backoff or in send_photo.  *)
C20_OneTaskInBlockingStage ==
    /\ [](Cardinality(InInpainting) <= 1)
    /\ [][OthersStandStill]_vars

\* a task inside the tool's call while another is suspended in its download
\* and its backoff has been awaited beside it
C20_Witness ==
    \E t \in Slots, u \in Runs :
        /\ tasks[t].pc = "iopaint"
        /\ tasks[u].pc = "download" /\ tasks[u].dl_waits # <<>>

====
